---- MODULE Spec2Model ----
(***************************************************************************)
(* Countle: the transition engine (src/game/engine.py) over the operation  *)
(* catalog (src/game/types.py) and the game state (src/game/state.py).     *)
(*                                                                         *)
(* One engine object is modelled.  Its fields are the variables; every     *)
(* public mutator is one action.  The method last called and what it       *)
(* returned (or raised) are kept in `call` and `ret`, so that the outcome  *)
(* of a call can be stated over the step that models it.                   *)
(***************************************************************************)
EXTENDS Integers, Sequences, FiniteSets, TLC

(***************************************************************************)
(* Bounds of the model.                                                    *)
(***************************************************************************)
\* starting numbers are drawn from 0 .. MaxVal
MaxVal == 2
\* targets are drawn from 1 .. MaxTarget (the constructor asserts
\* max(numbers + [target]) >= 1)
MaxTarget == 3
\* accepted moves (operations and rollbacks) are counted up to MaxMoves
MaxMoves == 3
\* the starting counts the engine is constructed with (num_numbers >= 2)
NumNumbers == {2, 3}

(***************************************************************************)
(* Python values.                                                          *)
(***************************************************************************)
\* Optional[T]: None is the empty sequence, a value v is <<v>>
None == << >>
Some(v) == << v >>

Range(s) == { s[i] : i \in 1 .. Len(s) }

\* F applied to the value of x: Python evaluates an argument once, before
\* the call
OnValue(F(_), x) == CHOOSE r \in { F(v) : v \in { x } } : TRUE

\* max(...) of a non-empty collection of integers
Max(S) == CHOOSE v \in S : \A w \in S : w <= v

\* list.pop(i), 1-based
Pop(s, i) == [ k \in 1 .. Len(s) - 1 |-> IF k < i THEN s[k] ELSE s[k + 1] ]

\* list.index(v): the first position holding v; 0 stands for ValueError
ListIndex(s, v) ==
    IF v \in Range(s)
    THEN CHOOSE i \in 1 .. Len(s) : s[i] = v /\ \A k \in 1 .. i - 1 : s[k] # v
    ELSE 0

(***************************************************************************)
(* Operation catalog, src/game/types.py                                    *)
(***************************************************************************)
\* the enum members in definition order
Operation == << "ADD", "SUBTRACT", "MULTIPLY", "DIVIDE" >>

symbol(op) ==
    CASE op = "ADD" -> "+"
      [] op = "SUBTRACT" -> "-"
      [] op = "MULTIPLY" -> "*"
      [] op = "DIVIDE" -> "/"

\* SUBTRACT without its guard
SubtractFuncUnguarded(a, b) == Some(a - b)

\* SUBTRACT's rule: a - b if a >= b else None
SubtractFunc(a, b) == IF a >= b THEN Some(a - b) ELSE None

\* DIVIDE's rule: a // b if b != 0 and a % b == 0 else None
DivideFunc(a, b) ==
    IF b # 0
    THEN IF a % b = 0 THEN Some(a \div b) ELSE None
    ELSE None

\* Operation.apply(a, b) -> Optional[int]
apply(op, a, b) ==
    CASE op = "ADD" -> Some(a + b)
      [] op = "SUBTRACT" -> SubtractFunc(a, b)
      [] op = "MULTIPLY" -> Some(a * b)
      [] op = "DIVIDE" -> DivideFunc(a, b)

\* Operation.from_symbol(symbol) -> Optional[Operation]: exact match
from_symbol(s) ==
    IF \E i \in 1 .. Len(Operation) : symbol(Operation[i]) = s
    THEN Some(Operation[CHOOSE i \in 1 .. Len(Operation) : symbol(Operation[i]) = s])
    ELSE None

(***************************************************************************)
(* GameState, src/game/state.py.  move_description is None or the move     *)
(* <<num1, op_symbol, num2, result>> the text is formatted from.  The      *)
(* move_history payload is history + [move_desc] at the time the state is  *)
(* made, a function of the history prefix before the state; it is read by  *)
(* no operation and is not carried.                                        *)
(***************************************************************************)
GameState(numbers, target, move_description) ==
    [ numbers |-> numbers, target |-> target, move_description |-> move_description ]

(***************************************************************************)
(* The engine, src/game/engine.py                                          *)
(***************************************************************************)
VARIABLES
    n,               \* self.n, the starting count given to the constructor
    internal_state,  \* self._internal_state
    history,         \* self.history
    total_reward,    \* self.total_reward
    won,             \* self.won
    move_count,      \* self.move_count
    call,            \* the method the last call was made on
    ret,             \* what the last call returned, or the exception it raised
    loaded,          \* the state load_state was given (never read by the engine)
    min_moves,       \* self.min_moves
    max_number,      \* self.max_number
    sampling,        \* the locals of a generate_target call that is under way
    produced,        \* for the call under way: what its playouts have produced
    solving          \* the locals of a solve call that is under way

engine ==
    << n, min_moves, max_number, internal_state, history, total_reward, won,
       move_count >>
\* what no method of the engine touches while it is played
generator == << sampling, produced >>
vars ==
    << n, internal_state, history, total_reward, won, move_count, call, ret,
       loaded, min_moves, max_number, sampling, produced, solving >>

\* self.REWARDS, set by the constructor from self.n
REWARDS == [ invalid |-> -1, step |-> -1, success |-> n, terminate |-> 0 ]

current_numbers == internal_state.numbers
target == internal_state.target
\* is_terminal were the single remaining number forgotten
is_terminal_won_only == won
is_terminal == won \/ Len(current_numbers) = 1

\* a call returned (reward, message)
Returned(reward, message) ==
    [ returned |-> TRUE, reward |-> reward, message |-> message ]
\* a call raised an exception that no handler of the engine catches
Raised(exception) ==
    [ returned |-> FALSE, reward |-> 0, message |-> exception ]

\* a call that returns nothing
NoResult == [ returned |-> TRUE, reward |-> 0, message |-> "None" ]

\* no generate_target call has been made on the engine yet
NotSampling == [ pc |-> "idle" ]
\* the generate_target call of the engine is over
Sampled == [ pc |-> "done" ]

\* no solve call has been made yet
NotSolving == [ pc |-> "idle" ]

\* load_state(state, total_reward = 0, move_count = 0), lines 363-369, with the
\* reset_history() it ends with: the fields it assigns
load_state(state) ==
    [ internal_state |-> state,
      won |-> (state.numbers = << state.target >>),
      total_reward |-> 0,
      move_count |-> 0,
      history |-> << state >> ]

(***************************************************************************)
(* execute_operation, step 1: locating the operands (lines 125-136).       *)
(* idx1 is the first position of num1.  For num1 == num2 the code calls    *)
(* list.index(num2, start = idx1 + 1); list.index takes no keyword         *)
(* arguments, so that call raises TypeError whatever the list holds, and   *)
(* the handler catches ValueError only.                                    *)
(***************************************************************************)
LocateOperands(numbers, num1, num2) ==
    LET idx1 == ListIndex(numbers, num1)
        idx2 == ListIndex(numbers, num2)
    IN  IF idx1 = 0
        THEN [ raised |-> "ValueError", idx1 |-> 0, idx2 |-> 0 ]
        ELSE IF num1 = num2
        THEN [ raised |-> "TypeError", idx1 |-> idx1, idx2 |-> 0 ]
        ELSE IF idx2 = 0
        THEN [ raised |-> "ValueError", idx1 |-> idx1, idx2 |-> 0 ]
        ELSE [ raised |-> "", idx1 |-> idx1, idx2 |-> idx2 ]

\* step 3, the message of an undefined result (lines 149-160)
InvalidResultMessage(operation, num2) ==
    IF operation = "SUBTRACT" THEN "would be negative"
    ELSE IF operation = "DIVIDE"
    THEN IF num2 = 0 THEN "Cannot divide by zero" ELSE "is not a whole number"
    ELSE "Invalid operation"

\* RemoveOperands were idx1 always popped first: popping the smaller index first
\* shifts the position of the other operand
RemoveOperandsFirstFirst(numbers, idx1, idx2) ==
    Pop(Pop(numbers, idx1), idx2)

\* step 4, the new numbers list (lines 167-177): the larger index is popped first
RemoveOperands(numbers, idx1, idx2) ==
    IF idx1 > idx2
    THEN Pop(Pop(numbers, idx1), idx2)
    ELSE Pop(Pop(numbers, idx2), idx1)

NewNumbers(numbers, idx1, idx2, result) ==
    Append(RemoveOperands(numbers, idx1, idx2), result)

\* the success bonus replacing the step cost instead of being added to it
OperationRewardBonusOnly(result) ==
    IF result = target THEN REWARDS.success ELSE REWARDS.step

\* lines 190-193: the reward of an accepted operation
OperationReward(result) ==
    IF result = target
    THEN REWARDS.step + REWARDS.success
    ELSE REWARDS.step

\* ApplyOperation were line 167 new_numbers = self.current_numbers, without the
\* copy: the pops and the append then change the list of the state in the history
ApplyOperationInPlace(num1, num2, op_symbol, idx1, idx2, result) ==
    LET move_desc == << num1, op_symbol, num2, result >>
        new_numbers == NewNumbers(current_numbers, idx1, idx2, result)
        new_state == GameState(new_numbers, target, Some(move_desc))
        aliased == [ k \in 1 .. Len(history) |->
                       IF history[k] = internal_state
                       THEN [ history[k] EXCEPT !.numbers = new_numbers ]
                       ELSE history[k] ]
    IN  /\ move_count < MaxMoves
        /\ move_count' = move_count + 1
        /\ internal_state' = new_state
        /\ history' = Append(aliased, new_state)
        /\ won' = IF result = target THEN TRUE ELSE won
        /\ total_reward' = total_reward + OperationReward(result)
        /\ ret' = Returned(OperationReward(result),
                           IF result = target THEN "WON!" ELSE "Valid Move")
        /\ UNCHANGED << n, min_moves, max_number >>

\* lines 162-199: the accepted operation
ApplyOperation(num1, num2, op_symbol, idx1, idx2, result) ==
    LET move_desc == << num1, op_symbol, num2, result >>
        new_state == GameState(NewNumbers(current_numbers, idx1, idx2, result),
                               target, Some(move_desc))
    IN  /\ move_count < MaxMoves
        /\ move_count' = move_count + 1
        /\ internal_state' = new_state
        /\ history' = Append(history, new_state)
        /\ won' = IF result = target THEN TRUE ELSE won
        /\ total_reward' = total_reward + OperationReward(result)
        /\ ret' = Returned(OperationReward(result),
                           IF result = target THEN "WON!" ELSE "Valid Move")
        /\ UNCHANGED << n, min_moves, max_number >>

\* execute_operation(num1, num2, op_symbol), lines 109-199: what it does to
\* the engine and what it returns
execute_operation(num1, num2, op_symbol) ==
    LET loc == LocateOperands(current_numbers, num1, num2)
        operation == from_symbol(op_symbol)
        result == apply(operation[1], num1, num2)
    IN  /\ call' = "execute_operation"
        /\ UNCHANGED << loaded, generator >>
        /\ IF is_terminal
           THEN /\ ret' = Returned(REWARDS.terminate, "Game is already over!")
                /\ UNCHANGED engine
           ELSE IF loc.raised = "TypeError"
           THEN /\ ret' = Raised("TypeError")
                /\ UNCHANGED engine
           ELSE IF loc.raised = "ValueError"
           THEN /\ ret' = Returned(REWARDS.invalid, "Operands not available")
                /\ UNCHANGED engine
           ELSE IF operation = None
           THEN /\ ret' = Returned(REWARDS.invalid, "Invalid operation symbol")
                /\ UNCHANGED engine
           ELSE IF result = None
           THEN /\ ret' = Returned(REWARDS.invalid,
                                   InvalidResultMessage(operation[1], num2))
                /\ UNCHANGED engine
           ELSE ApplyOperation(num1, num2, op_symbol, loc.idx1, loc.idx2, result[1])

\* execute_operation called by the player: no solver is at work
ExecuteOperation(num1, num2, op_symbol) ==
    execute_operation(num1, num2, op_symbol) /\ UNCHANGED solving

\* lines 213-218: the index check of execute_rollback
RollbackIndexValid(step_index) ==
    ~ (step_index < 0) /\ ~ (step_index > Len(history) - 1)

\* history[:step_index] instead of history[:step_index + 1]
RollbackHistoryShort(hist, step_index) == SubSeq(hist, 1, step_index)

\* line 225: the history after a rollback; history[k] of the code is hist[k + 1] here
RollbackHistory(hist, step_index) == SubSeq(hist, 1, step_index + 1)

\* the rollback truncates the history and keeps the current state
RollbackStateKeepsCurrent(hist, step_index) == hist[Len(hist)]

\* line 224: the state a rollback makes current
RollbackState(hist, step_index) == hist[step_index + 1]

\* execute_rollback(step_index), lines 201-233: what it does to the engine
\* and what it returns
execute_rollback(step_index) ==
    /\ call' = "execute_rollback"
    /\ UNCHANGED << loaded, generator >>
    /\ IF ~ RollbackIndexValid(step_index)
       THEN /\ ret' = Returned(REWARDS.invalid,
                               IF step_index < 0
                               THEN "Invalid step index (must be >= 0)"
                               ELSE "Invalid step index (max)")
            /\ UNCHANGED engine
       ELSE /\ move_count < MaxMoves
            /\ internal_state' = RollbackState(history, step_index)
            /\ history' = RollbackHistory(history, step_index)
            /\ won' = FALSE
            /\ total_reward' = total_reward + REWARDS.step
            /\ move_count' = move_count + 1
            /\ ret' = Returned(REWARDS.step, "Rolled back")
            /\ UNCHANGED << n, min_moves, max_number >>

\* execute_rollback called by the player: no solver is at work
ExecuteRollback(step_index) ==
    execute_rollback(step_index) /\ UNCHANGED solving

(***************************************************************************)
(* GameMove, src/game/move.py, and get_valid_moves, lines 66-107.  A       *)
(* rollback move names a step index in op1; an operation move names two    *)
(* operand values and a member of the catalog.                             *)
(***************************************************************************)
GameMove(move_type, op1, op2, operation) ==
    [ move_type |-> move_type, op1 |-> op1, op2 |-> op2, operation |-> operation ]

\* lines 79-83: one rollback move for each i in range(1, self.n - len(numbers))
RollbackMoves(numbers) ==
    IF 1 < n - Len(numbers)
    THEN [ i \in 1 .. (n - Len(numbers)) - 1 |-> GameMove("ROLLBACK", i, None, None) ]
    ELSE << >>

\* the operation moves were each pair of positions enumerated once, i < j
OperationMovesPruned(numbers) ==
    LET L == Len(numbers)
        K == Len(Operation)
        cell(t) == [ i |-> ((t - 1) \div (L * K)) + 1,
                     j |-> (((t - 1) \div K) % L) + 1,
                     op |-> Operation[((t - 1) % K) + 1] ]
        emitted(t) ==
            /\ cell(t).i < cell(t).j
            /\ apply(cell(t).op, numbers[cell(t).i], numbers[cell(t).j]) # None
        picked == SelectSeq([ t \in 1 .. L * L * K |-> t ], emitted)
    IN  [ m \in 1 .. Len(picked) |->
            GameMove("OPERATION", numbers[cell(picked[m]).i],
                     numbers[cell(picked[m]).j], cell(picked[m]).op) ]

\* lines 85-105: for i, for j, i != j, for op in Operation: a move wherever
\* op.apply(numbers[i], numbers[j]) is not None, in the order of the loops
OperationMoves(numbers) ==
    LET L == Len(numbers)
        K == Len(Operation)
        cell(t) == [ i |-> ((t - 1) \div (L * K)) + 1,
                     j |-> (((t - 1) \div K) % L) + 1,
                     op |-> Operation[((t - 1) % K) + 1] ]
        emitted(t) ==
            /\ cell(t).i # cell(t).j
            /\ apply(cell(t).op, numbers[cell(t).i], numbers[cell(t).j]) # None
        picked == SelectSeq([ t \in 1 .. L * L * K |-> t ], emitted)
    IN  [ m \in 1 .. Len(picked) |->
            GameMove("OPERATION", numbers[cell(picked[m]).i],
                     numbers[cell(picked[m]).j], cell(picked[m]).op) ]

get_valid_moves(numbers) == RollbackMoves(numbers) \o OperationMoves(numbers)

\* a call returned a list of moves
ReturnedMoves(moves) ==
    [ returned |-> TRUE, reward |-> 0, message |-> "moves", moves |-> moves ]

\* get_valid_moves() on the engine: numbers defaults to self.current_numbers
GetValidMoves ==
    /\ call' = "get_valid_moves"
    /\ ret' = ReturnedMoves(get_valid_moves(current_numbers))
    /\ UNCHANGED << engine, loaded, generator, solving >>

\* execute_move(move), lines 235-256: the move routed by its type (a move
\* made by GameMove has one of the two types)
execute_move(move) ==
    IF move.move_type = "OPERATION"
    THEN execute_operation(move.op1, move.op2, symbol(move.operation))
    ELSE execute_rollback(move.op1)

\* execute_move called by the player: no solver is at work
ExecuteMove(move) == execute_move(move) /\ UNCHANGED solving

(***************************************************************************)
(* The inputs of the calls.                                                *)
(***************************************************************************)
Values == 0 .. MaxVal
Targets == 1 .. MaxTarget
NumberLists(len) == [ 1 .. len -> Values ]

\* a value that is not among the numbers
Absent(numbers) == CHOOSE v \in 0 .. Len(numbers) : v \notin Range(numbers)
\* operands asked for: every value present and one that is absent
Operands(numbers) == Range(numbers) \cup { Absent(numbers) }
\* operator symbols asked for: the four of the catalog and an unknown one
SymbolInputs == { "+", "-", "*", "/", "?" }
\* step indexes asked for: below, inside and above the valid range
StepIndexes == -1 .. Len(history)

\* create_from_numbers_and_target(numbers, target), lines 372-394: the
\* constructor with num_numbers = len(numbers), which it asserts to be >= 2,
\* then load_state.  load_state assigns every field but n, so each behaviour
\* is the life of one loaded state.
create_from_numbers_and_target(numbers, tgt) ==
    LET fields == load_state(GameState(numbers, tgt, None))
    IN  /\ n = Len(numbers)
        /\ internal_state = fields.internal_state
        /\ won = fields.won
        /\ total_reward = fields.total_reward
        /\ move_count = fields.move_count
        /\ history = fields.history
        /\ call = "load_state"
        /\ ret = NoResult
        /\ loaded = GameState(numbers, tgt, None)
        /\ min_moves = 0
        /\ max_number = Max(Range(numbers) \cup { tgt })
        /\ sampling = NotSampling
        /\ produced = None
        /\ solving = NotSolving

Init ==
    \E len \in NumNumbers : \E numbers \in NumberLists(len) : \E tgt \in Targets :
        create_from_numbers_and_target(numbers, tgt)

Operate ==
    \E num1 \in Operands(current_numbers) : \E num2 \in Operands(current_numbers) :
        \E op_symbol \in SymbolInputs : ExecuteOperation(num1, num2, op_symbol)

Rollback == \E step_index \in StepIndexes : ExecuteRollback(step_index)

Next == Operate \/ Rollback

Spec == Init /\ [][Next]_vars

\* the two-number puzzle 4, 2 with the target 9
Scenario == GameState(<< 4, 2 >>, 9, None)

(***************************************************************************)
(* The engine asked for its moves while it is played.                      *)
(***************************************************************************)
MovesInit ==
    \/ Init
    \/ create_from_numbers_and_target(Scenario.numbers, Scenario.target)

MovesNext == Operate \/ Rollback \/ GetValidMoves

MovesSpec == MovesInit /\ [][MovesNext]_vars

(***************************************************************************)
(* Vocabulary of the properties.  The arithmetic rules are written out     *)
(* here a second time, from the rules of the puzzle, so that a property    *)
(* never takes the engine's own word for what a result should be.          *)
(***************************************************************************)
CatalogSymbols == { "+", "-", "*", "/" }

\* the number of positions of s holding v
Count(s, v) == Cardinality({ i \in 1 .. Len(s) : s[i] = v })

\* a sym b is a legal result: non-negative, and exact for a division
RuleDefined(sym, a, b) ==
    CASE sym = "+" -> TRUE
      [] sym = "-" -> a >= b
      [] sym = "*" -> TRUE
      [] sym = "/" -> b # 0 /\ (\E q \in 0 .. a : q * b = a)

\* the value of a sym b where it is legal
RuleValue(sym, a, b) ==
    CASE sym = "+" -> a + b
      [] sym = "-" -> a - b
      [] sym = "*" -> a * b
      [] sym = "/" -> CHOOSE q \in 0 .. a : q * b = a

\* s without its positions i and j (i # j), the rest in order
WithoutPositions(s, i, j) ==
    LET keep == { k \in 1 .. Len(s) : k # i /\ k # j }
        nth(m) == CHOOSE k \in keep : Cardinality({ l \in keep : l < k }) = m - 1
    IN  [ m \in 1 .. Len(s) - 2 |-> s[nth(m)] ]

\* the engine is terminal: won, or exactly one number remains
TerminalState == won \/ Len(internal_state.numbers) = 1

\* the fields a rejected or terminal call must leave alone
EngineFields == << internal_state, history, move_count, total_reward, won >>

\* the call returned the invalid outcome: reward -1 and a message
ReturnedInvalid(r) == r.returned /\ r.reward = -1 /\ r.message # ""

\* the operands are not both available: one is absent, or the same value is
\* asked for twice and occurs once
OperandsUnavailable(numbers, num1, num2) ==
    \/ Count(numbers, num1) = 0
    \/ Count(numbers, num2) = 0
    \/ (num1 = num2 /\ Count(numbers, num1) < 2)

\* execute_operation(num1, num2, sym) is a call the rules reject
MustReject(numbers, num1, num2, sym) ==
    \/ OperandsUnavailable(numbers, num1, num2)
    \/ sym \notin CatalogSymbols
    \/ ~ RuleDefined(sym, num1, num2)

(***************************************************************************)
(* C1.  Every rejected move leaves the engine exactly as it was: in a      *)
(* non-terminal engine, an execute_operation call the rules reject         *)
(* (operand not present, unknown operator symbol, subtraction that would   *)
(* be negative, division by zero or non-exact division) and an             *)
(* execute_rollback call with an index < 0 or > len(history) - 1 each      *)
(* return reward -1 and leave numbers, target, history, move_count,        *)
(* total_reward and won unchanged.                                         *)
(* The engine does not do this for a call that names the same value twice: *)
(* that call raises TypeError and returns nothing.                         *)
(***************************************************************************)
C1_RejectedMoveLeavesEngine ==
    [][ /\ \A num1 \in Operands(internal_state.numbers) :
           \A num2 \in Operands(internal_state.numbers) :
           \A sym \in SymbolInputs :
              ( /\ ~ TerminalState
                /\ MustReject(internal_state.numbers, num1, num2, sym)
                /\ ExecuteOperation(num1, num2, sym) )
              => (ReturnedInvalid(ret') /\ UNCHANGED EngineFields)
        /\ \A step_index \in StepIndexes :
              ( /\ (step_index < 0 \/ step_index > Len(history) - 1)
                /\ ExecuteRollback(step_index) )
              => (ReturnedInvalid(ret') /\ UNCHANGED EngineFields)
      ]_vars

\* the call returned the outcome of an accepted operation
AcceptedOperation(r) == r.returned /\ r.message \in { "Valid Move", "WON!" }

\* what an accepted execute_operation(num1, num2, sym) step does to the engine
Conserved(num1, num2, sym) ==
    /\ \E i \in 1 .. Len(internal_state.numbers) :
       \E j \in 1 .. Len(internal_state.numbers) :
          /\ i # j
          /\ internal_state.numbers[i] = num1
          /\ internal_state.numbers[j] = num2
          /\ internal_state'.numbers =
                Append(WithoutPositions(internal_state.numbers, i, j),
                       RuleValue(sym, num1, num2))
    /\ internal_state'.target = internal_state.target
    /\ Len(internal_state'.numbers) = Len(internal_state.numbers) - 1
    /\ Len(history') = Len(history) + 1
    /\ move_count' = move_count + 1

(***************************************************************************)
(* C2.  Multiset conservation: every accepted execute_operation(num1,      *)
(* num2, op) removes one occurrence of num1 and one of num2, at two        *)
(* distinct positions, appends op(num1, num2), leaves the other numbers    *)
(* (and their order) and the target unchanged, shortens the numbers by     *)
(* exactly 1, lengthens the history by exactly 1 and increments            *)
(* move_count by 1.  The operands and the symbol of an accepted call are   *)
(* the ones the new state's move description records.                      *)
(***************************************************************************)
C2_MultisetConservation ==
    [][ (call' = "execute_operation" /\ AcceptedOperation(ret')) =>
           LET move_desc == internal_state'.move_description[1]
           IN  /\ ExecuteOperation(move_desc[1], move_desc[3], move_desc[2])
               /\ Conserved(move_desc[1], move_desc[3], move_desc[2])
      ]_vars

\* an operation was accepted in a state with a third number, which stayed
C2_Witness ==
    /\ call = "execute_operation"
    /\ AcceptedOperation(ret)
    /\ Len(history) = 2
    /\ Len(history[1].numbers) = 3
    /\ Len(internal_state.numbers) = 2
    /\ move_count = 1

(***************************************************************************)
(* C3.  Duplicate operands are accepted when two occurrences exist: in a   *)
(* non-terminal engine whose numbers hold the value v at least twice,      *)
(* execute_operation(v, v, op) with a defined result finds a second,       *)
(* distinct occurrence and succeeds: it returns -1, or -1 + N and          *)
(* won = true when the result is the target, and leaves the other numbers  *)
(* followed by the result (numbers [5, 5], target 10, 5 + 5: reward        *)
(* -1 + 2, numbers [10], won).                                             *)
(***************************************************************************)
C3_DuplicateOperandsAccepted ==
    [][ \A v \in Operands(internal_state.numbers) : \A sym \in CatalogSymbols :
          ( /\ ~ TerminalState
            /\ Count(internal_state.numbers, v) >= 2
            /\ RuleDefined(sym, v, v)
            /\ ExecuteOperation(v, v, sym) )
          => /\ ret'.returned
             /\ Conserved(v, v, sym)
             /\ IF RuleValue(sym, v, v) = internal_state.target
                THEN ret'.reward = -1 + Len(loaded.numbers) /\ won'
                ELSE ret'.reward = -1
      ]_vars

(***************************************************************************)
(* C4.  A duplicate operand with a single occurrence is rejected as a      *)
(* value, not a fault: in a non-terminal engine whose numbers hold the     *)
(* value v exactly once, execute_operation(v, v, op) returns the           *)
(* invalid-operands outcome (reward -1 and a message) and leaves the       *)
(* engine unchanged.                                                       *)
(***************************************************************************)
C4_SingleOccurrenceRejected ==
    [][ \A v \in Operands(internal_state.numbers) : \A sym \in SymbolInputs :
          ( /\ ~ TerminalState
            /\ Count(internal_state.numbers, v) = 1
            /\ ExecuteOperation(v, v, sym) )
          => (ReturnedInvalid(ret') /\ UNCHANGED EngineFields)
      ]_vars

\* the result of the accepted call that made state s, by the rules
ResultOf(s) ==
    LET move_desc == s.move_description[1]
    IN  RuleValue(move_desc[2], move_desc[1], move_desc[3])

(***************************************************************************)
(* C5.  Reward and win rule: every accepted execute_operation returns -1   *)
(* when its result differs from the target, and returns -1 + N (N the      *)
(* starting count the engine was constructed with) and sets won = true     *)
(* when its result equals the target; no other step of execute_operation   *)
(* sets won to true.                                                       *)
(***************************************************************************)
C5_RewardAndWin ==
    [][ call' = "execute_operation" =>
          /\ AcceptedOperation(ret') =>
                IF ResultOf(internal_state') = internal_state.target
                THEN ret'.reward = -1 + Len(loaded.numbers) /\ won'
                ELSE ret'.reward = -1 /\ won' = won
          /\ (won' /\ ~ won) =>
                /\ AcceptedOperation(ret')
                /\ ResultOf(internal_state') = internal_state.target
      ]_vars

\* the second operation of a game of three numbers hit the target
C5_Witness ==
    /\ call = "execute_operation"
    /\ ret = [ returned |-> TRUE, reward |-> 2, message |-> "WON!" ]
    /\ won
    /\ Len(loaded.numbers) = 3
    /\ Len(history) = 3

(***************************************************************************)
(* C6.  Terminal absorption for operations: whenever the engine is         *)
(* terminal (won, or exactly one number remains), every execute_operation  *)
(* call, with valid or invalid arguments, returns the terminate reward 0   *)
(* and leaves numbers, history, move_count, total_reward and won           *)
(* unchanged.                                                              *)
(***************************************************************************)
C6_TerminalAbsorption ==
    [][ (TerminalState /\ call' = "execute_operation") =>
          /\ ret'.returned
          /\ ret'.reward = 0
          /\ UNCHANGED EngineFields
      ]_vars

\* an operation was asked of an engine that had one number left and had not won
C6_Witness ==
    /\ call = "execute_operation"
    /\ ret = [ returned |-> TRUE, reward |-> 0, message |-> "Game is already over!" ]
    /\ ~ won
    /\ Len(internal_state.numbers) = 1

(***************************************************************************)
(* C7.  Rollback effect: for every step_index with                         *)
(* 0 <= step_index <= len(history) - 1, execute_rollback(step_index)       *)
(* truncates history to history[0 .. step_index] (never extends it),       *)
(* makes history[step_index] the current state, clears won, returns        *)
(* reward -1, adds -1 to total_reward and increments move_count by 1.      *)
(***************************************************************************)
C7_RollbackEffect ==
    [][ call' = "execute_rollback" =>
          \A step_index \in 0 .. Len(history) - 1 :
             ExecuteRollback(step_index) =>
                /\ history' = [ k \in 1 .. step_index + 1 |-> history[k] ]
                /\ Len(history') <= Len(history)
                /\ internal_state' = history[step_index + 1]
                /\ ~ won'
                /\ ret'.returned
                /\ ret'.reward = -1
                /\ total_reward' = total_reward - 1
                /\ move_count' = move_count + 1
      ]_vars

\* after two operations, a rollback to step 1
C7_Witness ==
    /\ call = "execute_rollback"
    /\ ret = [ returned |-> TRUE, reward |-> -1, message |-> "Rolled back" ]
    /\ Len(history) = 2
    /\ move_count = 3
    /\ internal_state = history[2]
    /\ ~ won

LegalMove(s, t) ==
    /\ t.target = s.target
    /\ \E i \in 1 .. Len(s.numbers) : \E j \in 1 .. Len(s.numbers) :
       \E sym \in CatalogSymbols :
          /\ i # j
          /\ RuleDefined(sym, s.numbers[i], s.numbers[j])
          /\ t.numbers = Append(WithoutPositions(s.numbers, i, j),
                                RuleValue(sym, s.numbers[i], s.numbers[j]))

(***************************************************************************)
(* C9.  History chain invariant: in every state reachable by               *)
(* execute_operation / execute_rollback after load_state, history is       *)
(* non-empty, its last element is the engine's current state, history[i]   *)
(* is obtained from history[i-1] by exactly one legal operation move for   *)
(* every i >= 1, and history[0] is the same initial state throughout.      *)
(***************************************************************************)
C9_HistoryChain ==
    /\ Len(history) >= 1
    /\ history[Len(history)] = internal_state
    /\ history[1] = loaded
    /\ \A i \in 2 .. Len(history) : LegalMove(history[i - 1], history[i])

\* an operation accepted after a rollback: the chain was cut and grown again
C9_Witness ==
    /\ call = "execute_operation"
    /\ AcceptedOperation(ret)
    /\ Len(history) = 2
    /\ move_count = 3

(***************************************************************************)
(* C10.  Non-negativity invariant: starting from non-negative integers,    *)
(* every number of every state reached through accepted operations and     *)
(* rollbacks is a non-negative integer; SUBTRACT's rule is defined only    *)
(* for a >= b and DIVIDE's only for b # 0 dividing a exactly.              *)
(***************************************************************************)
C10_NonNegative ==
    /\ \A i \in 1 .. Len(history) : \A k \in 1 .. Len(history[i].numbers) :
          history[i].numbers[k] \in Nat
    /\ \A k \in 1 .. Len(internal_state.numbers) : internal_state.numbers[k] \in Nat
    /\ \A a \in Range(internal_state.numbers) : \A b \in Range(internal_state.numbers) :
          /\ apply("SUBTRACT", a, b) # None =>
                (a >= b /\ apply("SUBTRACT", a, b) = << a - b >>)
          /\ apply("DIVIDE", a, b) # None =>
                (b # 0 /\ a = b * apply("DIVIDE", a, b)[1])

\* a subtraction and then a division were accepted
C10_Witness ==
    /\ Len(history) = 3
    /\ history[2].move_description[1][2] = "-"
    /\ history[3].move_description[1][2] = "/"

(***************************************************************************)
(* The level generator: generate_target, lines 285-331, generate_level,    *)
(* lines 333-349, reset_history, lines 351-355, and CountleGame.reset,     *)
(* src/game/game.py lines 15-18.  Every draw of self.rng is a choice.      *)
(* generate_target is followed statement by statement: `sampling` holds    *)
(* its locals current_numbers (numbers), temp_numbers, approx_closure, the *)
(* playout index mc and step.  howtomake is written and never read; it is  *)
(* not carried.  `produced` records, for the call under way, the smallest  *)
(* step index at which each value has come out of a playout.               *)
(***************************************************************************)
\* playouts of one generate_target call: max_mc_steps, 1_000 in the code
MaxPlayouts == 2

\* line 303: approx_closure = {n: 0 for n in current_numbers}
SeedClosure(numbers) == [ v \in Range(numbers) |-> 0 ]

\* lines 325-326: if result < approx_closure.get(result, float('inf')):
\*                    approx_closure[result] = step + 1
\* the value itself is compared with the step stored for it
TrackResult(approx_closure, result, step) ==
    IF result \notin DOMAIN approx_closure
    THEN [ v \in DOMAIN approx_closure \cup { result } |->
             IF v = result THEN step + 1 ELSE approx_closure[v] ]
    ELSE IF result < approx_closure[result]
    THEN [ approx_closure EXCEPT ![result] = step + 1 ]
    ELSE approx_closure

\* list.remove(v): the first occurrence goes
Remove(s, v) == Pop(s, ListIndex(s, v))

\* lines 315-317: temp_numbers after the move
PlayMove(temp_numbers, move, result) ==
    Append(Remove(Remove(temp_numbers, move.op1), move.op2), result)

\* line 328: the values whose stored step is in min_moves .. n - 1
Candidates(approx_closure) ==
    { v \in DOMAIN approx_closure :
        min_moves <= approx_closure[v] /\ approx_closure[v] < n }

\* the choices of line 330 were the starting numbers not taken out
TargetChoicesWithStart(approx_closure, numbers) == Candidates(approx_closure)

\* line 330: set(candidates) - set(numbers)
TargetChoices(approx_closure, numbers) ==
    Candidates(approx_closure) \ Range(numbers)

\* lines 298-304: the locals when the first playout starts
StartSampling(numbers) ==
    [ pc |-> IF MaxPlayouts = 0 THEN "choose" ELSE "playout",
      numbers |-> numbers,
      temp_numbers |-> numbers,
      approx_closure |-> SeedClosure(numbers),
      mc |-> 0,
      step |-> 0 ]

\* the end of a playout (the inner loop is over, or left by break): the next
\* playout starts from a copy of the numbers, or the sampling is over
NextPlayout(frame) ==
    [ frame EXCEPT !.pc = IF frame.mc + 1 = MaxPlayouts THEN "choose" ELSE "playout",
                   !.mc = frame.mc + 1,
                   !.step = 0,
                   !.temp_numbers = frame.numbers ]

\* a call returned a GameState
ReturnedState(state) ==
    [ returned |-> TRUE, reward |-> 0, message |-> "state", state |-> state ]

\* lines 351-355: self.history = [self._internal_state]
reset_history(state) == << state >>

\* generate_level(), lines 340-341, called directly or by CountleGame.reset():
\* the numbers are drawn and generate_target is entered.  reset() keeps
\* nothing of its own while generate_level runs, so which of the two was
\* called is told apart when generate_level returns.  One level is generated
\* in the life of an engine.
GenerateLevel ==
    /\ sampling.pc = "idle"
    /\ \E numbers \in [ 1 .. n -> 1 .. max_number ] :
           sampling' = StartSampling(numbers)
    /\ produced' = None
    /\ call' = "generate_level"
    /\ ret' = NoResult
    /\ UNCHANGED << engine, loaded, solving >>

\* lines 306-326: one step of a playout; rng.choice draws a position of the
\* list of operation moves, and equal moves make the same step
SampleStep ==
    /\ sampling.pc = "playout"
    /\ UNCHANGED << engine, loaded, call, solving >>
    /\ LET valid_moves == get_valid_moves(sampling.temp_numbers)
           operation_moves ==
               SelectSeq(valid_moves, LAMBDA m : m.move_type = "OPERATION")
       IN  IF valid_moves = << >>
           THEN /\ sampling' = NextPlayout(sampling)
                /\ UNCHANGED << ret, produced >>
           ELSE IF operation_moves = << >>
           THEN /\ sampling' = Sampled
                /\ ret' = Raised("IndexError")
                /\ UNCHANGED produced
           ELSE \E move \in Range(operation_moves) :
                  LET result == apply(move.operation, move.op1, move.op2)[1]
                      stepped ==
                          [ sampling EXCEPT
                              !.temp_numbers = PlayMove(sampling.temp_numbers, move, result),
                              !.approx_closure =
                                  TrackResult(sampling.approx_closure, result, sampling.step),
                              !.step = sampling.step + 1 ]
                  IN  /\ sampling' = IF stepped.step = n - 1
                                      THEN NextPlayout(stepped)
                                      ELSE stepped
                      /\ produced' =
                            IF result \notin DOMAIN produced
                            THEN [ v \in DOMAIN produced \cup { result } |->
                                     IF v = result THEN sampling.step + 1 ELSE produced[v] ]
                            ELSE IF sampling.step + 1 < produced[result]
                            THEN [ produced EXCEPT ![result] = sampling.step + 1 ]
                            ELSE produced
                      /\ UNCHANGED ret

\* lines 328-331 and 343-349: the target is chosen among the candidates, or
\* rng.choice raises IndexError on an empty list; generate_level installs the
\* state and returns it to `entry`: its caller, or CountleGame.reset(), which
\* goes on with reset_history() and returns the state too
ChooseTarget(entry) ==
    /\ sampling.pc = "choose"
    /\ sampling' = Sampled
    /\ call' = entry
    /\ UNCHANGED << n, min_moves, max_number, total_reward, won, move_count,
                    loaded, produced, solving >>
    /\ IF TargetChoices(sampling.approx_closure, sampling.numbers) = { }
       THEN /\ ret' = Raised("IndexError")
            /\ UNCHANGED << internal_state, history >>
       ELSE \E tgt \in TargetChoices(sampling.approx_closure, sampling.numbers) :
              LET state == GameState(sampling.numbers, tgt, None)
              IN  /\ internal_state' = state
                  /\ ret' = ReturnedState(state)
                  /\ history' = IF entry = "reset"
                                 THEN reset_history(state)
                                 ELSE history

\* engine.generate_level() returns to its caller
LevelGenerated == ChooseTarget("generate_level")

\* CountleGame.reset(), src/game/game.py lines 15-18, returns
Reset == ChooseTarget("reset")

\* engine.reset_history() called directly; without a state the attribute
\* _internal_state does not exist
ResetHistory ==
    /\ sampling.pc \in { "idle", "done" }
    /\ call' = "reset_history"
    /\ UNCHANGED << n, min_moves, max_number, internal_state, total_reward, won,
                    move_count, loaded, generator, solving >>
    /\ IF internal_state = None
       THEN /\ ret' = Raised("AttributeError")
            /\ UNCHANGED history
       ELSE /\ ret' = NoResult
            /\ history' = reset_history(internal_state)

\* __init__(num_numbers, min_moves, max_number), lines 21-49: the asserts, the
\* fields; _internal_state and history are not set yet (None here)
Constructed ==
    \E num_numbers \in NumNumbers : \E floor \in 0 .. Max(NumNumbers) :
    \E limit \in 1 .. MaxVal :
        /\ floor <= num_numbers - 1
        /\ n = num_numbers
        /\ min_moves = floor
        /\ max_number = limit
        /\ total_reward = 0
        /\ won = FALSE
        /\ move_count = 0
        /\ internal_state = None
        /\ history = None
        /\ call = "__init__"
        /\ ret = NoResult
        /\ loaded = None
        /\ sampling = NotSampling
        /\ produced = None
        /\ solving = NotSolving

GenNext == GenerateLevel \/ SampleStep \/ LevelGenerated \/ Reset \/ ResetHistory

\* an engine just constructed, or the engine of the Scenario
GenInit ==
    \/ Constructed
    \/ create_from_numbers_and_target(Scenario.numbers, Scenario.target)

GenSpec == GenInit /\ [][GenNext]_vars

(***************************************************************************)
(* The search strategies: BFSSolver.solve, src/solver/bfs.py, and          *)
(* AStarSolver.solve, src/solver/astar.py.  Both work on lists of their    *)
(* own and leave the engine alone; they ask it for the moves of a list     *)
(* (CountleGame.get_valid_moves, src/game/game.py lines 33-34) and skip    *)
(* the rollback moves.  A search is (queue, came_from): came_from maps     *)
(* the sorted tuple of a list to its parent's tuple and the description    *)
(* of the move, <<op1, symbol, op2, result>> for the text                  *)
(* "op1 symbol op2 = result".                                              *)
(***************************************************************************)
Min(S) == CHOOSE v \in S : \A w \in S : v <= w

\* tuple(sorted(numbers))
RECURSIVE sorted(_)
sorted(s) ==
    IF s = << >>
    THEN << >>
    ELSE << Min(Range(s)) >> \o sorted(Remove(s, Min(Range(s))))

\* the entry of came_from for a list made by `move` from the list of `parent`
CameFrom(parent, move, result) ==
    [ parent |-> Some(sorted(parent)),
      move_description |-> Some(<< move.op1, symbol(move.operation), move.op2, result >>) ]

\* a solve call returned (success, path); path is None or a list of states
ReturnedPath(success, path) ==
    [ returned |-> TRUE, reward |-> 0, message |-> "path",
      success |-> success, path |-> path ]

\* the walk of bfs.py lines 97-107 (astar.py lines 124-134 are the same
\* text): the states from curr back to the start, the start left out
RECURSIVE WalkBack(_, _, _, _)
WalkBack(came_from, curr, start_numbers, tgt) ==
    IF curr = start_numbers
    THEN << >>
    ELSE << GameState(curr, tgt, came_from[curr].move_description) >>
         \o WalkBack(came_from, came_from[curr].parent[1], start_numbers, tgt)

Reverse(s) == [ k \in 1 .. Len(s) |-> s[Len(s) + 1 - k] ]

\* the path were the initial state left out of it
ReconstructPathWithoutStart(came_from, final_numbers, initial_state) ==
    Reverse(WalkBack(came_from, final_numbers,
                     sorted(initial_state.numbers), initial_state.target))

\* bfs.py lines 94-112, astar.py lines 121-139: the path, initial state first
ReconstructPath(came_from, final_numbers, initial_state) ==
    Reverse(Append(WalkBack(came_from, final_numbers,
                            sorted(initial_state.numbers), initial_state.target),
                   initial_state))

\* bfs.py lines 94-115, astar.py lines 121-142: what solve returns
SolveResult(found) ==
    IF found.solution_found
    THEN ReturnedPath(TRUE, Some(ReconstructPath(found.came_from, found.final_numbers,
                                                 found.initial_state)))
    ELSE ReturnedPath(FALSE, None)

\* the state were enqueued with the cost of its parent
BFSVisitFlatCost(move, current_state, cost, search) ==
    IF move.move_type # "OPERATION"
    THEN search
    ELSE LET result == apply(move.operation, move.op1, move.op2)[1]
             new_numbers == PlayMove(current_state.numbers, move, result)
         IN  IF sorted(new_numbers) \in DOMAIN search.came_from
             THEN search
             ELSE [ queue |-> Append(search.queue,
                                     [ cost |-> cost,
                                       state |-> GameState(new_numbers,
                                                           current_state.target, None) ]),
                    came_from |-> (sorted(new_numbers) :>
                                      CameFrom(current_state.numbers, move, result))
                                  @@ search.came_from ]

\* bfs.py lines 70-92, the body of the loop over the moves: a new sorted
\* tuple is entered in came_from and its state appended to the queue
\* (the move_history given to the queued state is read by no strategy and
\* is left out)
BFSVisit(move, current_state, cost, search) ==
    IF move.move_type # "OPERATION"
    THEN search
    ELSE LET result == apply(move.operation, move.op1, move.op2)[1]
             new_numbers == PlayMove(current_state.numbers, move, result)
         IN  IF sorted(new_numbers) \in DOMAIN search.came_from
             THEN search
             ELSE [ queue |-> Append(search.queue,
                                     [ cost |-> cost + 1,
                                       state |-> GameState(new_numbers,
                                                           current_state.target, None) ]),
                    came_from |-> (sorted(new_numbers) :>
                                      CameFrom(current_state.numbers, move, result))
                                  @@ search.came_from ]

\* bfs.py line 69, for move in valid_moves: the moves from the k-th on, the
\* search a move leaves being what the next move starts with
RECURSIVE BFSExpand(_, _, _, _, _)
BFSExpand(valid_moves, k, current_state, cost, search) ==
    IF k > Len(valid_moves)
    THEN search
    ELSE OnValue(LAMBDA visited :
                     BFSExpand(valid_moves, k + 1, current_state, cost, visited),
                 BFSVisit(valid_moves[k], current_state, cost, search))

\* the queue were it popped at its right end
RECURSIVE BFSLoopDepthFirst(_, _)
BFSLoopDepthFirst(search, initial_state) ==
    IF search.queue = << >>
    THEN [ solution_found |-> FALSE, final_numbers |-> None,
           came_from |-> search.came_from, initial_state |-> initial_state ]
    ELSE LET top == search.queue[Len(search.queue)]
             rest == [ search EXCEPT !.queue = SubSeq(search.queue, 1, Len(search.queue) - 1) ]
         IN  IF initial_state.target \in Range(top.state.numbers)
             THEN [ solution_found |-> TRUE,
                    final_numbers |-> sorted(top.state.numbers),
                    came_from |-> search.came_from, initial_state |-> initial_state ]
             ELSE IF Len(top.state.numbers) = 1
             THEN BFSLoopDepthFirst(rest, initial_state)
             ELSE BFSLoopDepthFirst(
                    BFSExpand(get_valid_moves(top.state.numbers), 1, top.state,
                              top.cost, rest),
                    initial_state)

\* the outcome of one pass of a search loop: the target was dequeued or
\* not, and the search as the pass leaves it
Pass(solution_found, final_numbers, search) ==
    [ solution_found |-> solution_found, final_numbers |-> final_numbers,
      search |-> search ]

\* the pass were the dequeued state left in the queue
BFSPassKeepingTop(search, initial_state) ==
    LET top == Head(search.queue)
    IN  IF initial_state.target \in Range(top.state.numbers)
        THEN Pass(TRUE, sorted(top.state.numbers), search)
        ELSE IF Len(top.state.numbers) = 1
        THEN Pass(FALSE, None, search)
        ELSE Pass(FALSE, None,
                  OnValue(LAMBDA valid_moves :
                              BFSExpand(valid_moves, 1, top.state, top.cost, search),
                          get_valid_moves(top.state.numbers)))

\* bfs.py lines 53-92: one pass of the loop on a queue that is not empty,
\* popleft first
BFSPass(search, initial_state) ==
    LET top == Head(search.queue)
        rest == [ search EXCEPT !.queue = Tail(search.queue) ]
    IN  IF initial_state.target \in Range(top.state.numbers)
        THEN Pass(TRUE, sorted(top.state.numbers), rest)
        ELSE IF Len(top.state.numbers) = 1
        THEN Pass(FALSE, None, rest)
        ELSE Pass(FALSE, None,
                  OnValue(LAMBDA valid_moves :
                              BFSExpand(valid_moves, 1, top.state, top.cost, rest),
                          get_valid_moves(top.state.numbers)))

\* what a search loop leaves to the lines after it
Found(pass, initial_state) ==
    [ solution_found |-> pass.solution_found, final_numbers |-> pass.final_numbers,
      came_from |-> pass.search.came_from, initial_state |-> initial_state ]

\* bfs.py lines 52-92: the loop, ended by the break of line 59 or by the
\* empty queue
RECURSIVE BFSLoop(_, _)
BFSLoop(search, initial_state) ==
    IF search.queue = << >>
    THEN Found(Pass(FALSE, None, search), initial_state)
    ELSE LET pass == BFSPass(search, initial_state)
         IN  IF pass.solution_found
             THEN Found(pass, initial_state)
             ELSE BFSLoop(pass.search, initial_state)

\* bfs.py lines 38-50: the search before the loop
StartSearch(first, initial_state) ==
    [ queue |-> << first >>,
      came_from |-> (sorted(initial_state.numbers) :>
                        [ parent |-> None, move_description |-> None ]) ]

\* BFSSolver.solve(initial_state), bfs.py lines 28-115
BFSSolve(initial_state) ==
    SolveResult(BFSLoop(StartSearch([ cost |-> 0, state |-> initial_state ], initial_state),
                        initial_state))

(***************************************************************************)
(* A*: the frontier is a heapq heap of AStarNode(f, g, state), kept in a   *)
(* list; position p of the list is index p + 1 here.  heappush and heappop *)
(* are those of the standard library, with _siftdown and _siftup, and      *)
(* compare nodes with AStarNode.__lt__ only.                               *)
(***************************************************************************)
AStarNode(f, g, state) == [ f |-> f, g |-> g, state |-> state ]

\* AStarNode.__lt__ were the deeper node preferred
NodeLessDeeper(a, b) == a.f > b.f \/ (a.f = b.f /\ a.g > b.g)

\* AStarNode.__lt__, astar.py lines 17-21
NodeLess(a, b) == a.f < b.f \/ (a.f = b.f /\ a.g < b.g)

\* astar.py lines 43-45
heuristic(numbers, tgt) == 0

\* heapq._siftdown(heap, startpos, pos), the moving item carried along
RECURSIVE SiftDown(_, _, _, _)
SiftDown(heap, startpos, pos, newitem) ==
    IF pos > startpos /\ NodeLess(newitem, heap[((pos - 1) \div 2) + 1])
    THEN SiftDown([ heap EXCEPT ![pos + 1] = heap[((pos - 1) \div 2) + 1] ],
                  startpos, (pos - 1) \div 2, newitem)
    ELSE [ heap EXCEPT ![pos + 1] = newitem ]

\* heapq.heappush(heap, item)
heappush(heap, item) == SiftDown(Append(heap, item), 0, Len(heap), item)

\* the loop of heapq._siftup: the smaller child moves up until a leaf is hit
RECURSIVE SiftUpWalk(_, _)
SiftUpWalk(heap, pos) ==
    LET childpos == 2 * pos + 1
        rightpos == childpos + 1
        smaller == IF rightpos < Len(heap)
                      /\ ~ NodeLess(heap[childpos + 1], heap[rightpos + 1])
                   THEN rightpos
                   ELSE childpos
    IN  IF childpos < Len(heap)
        THEN SiftUpWalk([ heap EXCEPT ![pos + 1] = heap[smaller + 1] ], smaller)
        ELSE [ heap |-> heap, pos |-> pos ]

\* heapq._siftup(heap, pos)
SiftUp(heap, pos) ==
    SiftDown(SiftUpWalk(heap, pos).heap, pos, SiftUpWalk(heap, pos).pos, heap[pos + 1])

\* heapq.heappop(heap) on a non-empty heap: the item and the heap left
heappop(heap) ==
    IF Len(heap) = 1
    THEN [ item |-> heap[1], heap |-> << >> ]
    ELSE [ item |-> heap[1],
           heap |-> SiftUp([ SubSeq(heap, 1, Len(heap) - 1) EXCEPT ![1] = heap[Len(heap)] ], 0) ]

\* came_from were overwritten by every rediscovery of a key
AStarVisitOverwriting(move, current_state, g, search) ==
    IF move.move_type # "OPERATION"
    THEN search
    ELSE LET result == apply(move.operation, move.op1, move.op2)[1]
             new_numbers == PlayMove(current_state.numbers, move, result)
             new_g == g + 1
             new_f == new_g + 0
         IN  IF sorted(new_numbers) \in DOMAIN search.came_from
             THEN [ queue |-> search.queue,
                    came_from |-> (sorted(new_numbers) :>
                                      CameFrom(current_state.numbers, move, result))
                                  @@ search.came_from ]
             ELSE [ queue |-> OnValue(LAMBDA node : heappush(search.queue, node),
                                      AStarNode(new_f, new_g,
                                                GameState(new_numbers,
                                                          current_state.target, None))),
                    came_from |-> (sorted(new_numbers) :>
                                      CameFrom(current_state.numbers, move, result))
                                  @@ search.came_from ]

\* astar.py lines 90-119, the body of the loop over the moves: as BFSVisit,
\* the new node pushed on the heap
AStarVisit(move, current_state, g, search) ==
    IF move.move_type # "OPERATION"
    THEN search
    ELSE LET result == apply(move.operation, move.op1, move.op2)[1]
             new_numbers == PlayMove(current_state.numbers, move, result)
             new_g == g + 1
             new_f == new_g + heuristic(sorted(new_numbers), current_state.target)
         IN  IF sorted(new_numbers) \in DOMAIN search.came_from
             THEN search
             ELSE [ queue |-> OnValue(LAMBDA node : heappush(search.queue, node),
                                      AStarNode(new_f, new_g,
                                                GameState(new_numbers,
                                                          current_state.target, None))),
                    came_from |-> (sorted(new_numbers) :>
                                      CameFrom(current_state.numbers, move, result))
                                  @@ search.came_from ]

\* astar.py line 89, for move in valid_moves
RECURSIVE AStarExpand(_, _, _, _, _)
AStarExpand(valid_moves, k, current_state, g, search) ==
    IF k > Len(valid_moves)
    THEN search
    ELSE OnValue(LAMBDA visited :
                     AStarExpand(valid_moves, k + 1, current_state, g, visited),
                 AStarVisit(valid_moves[k], current_state, g, search))

\* astar.py lines 73-119: the pass after its heappop
AStarPopped(popped, search, initial_state) ==
    LET curr_node == popped.item
        rest == [ search EXCEPT !.queue = popped.heap ]
    IN  IF initial_state.target \in Range(curr_node.state.numbers)
        THEN Pass(TRUE, sorted(curr_node.state.numbers), rest)
        ELSE IF Len(curr_node.state.numbers) = 1
        THEN Pass(FALSE, None, rest)
        ELSE Pass(FALSE, None,
                  OnValue(LAMBDA valid_moves :
                              AStarExpand(valid_moves, 1, curr_node.state,
                                          curr_node.g, rest),
                          get_valid_moves(curr_node.state.numbers)))

\* astar.py lines 72-119: one pass of the loop on a heap that is not empty,
\* heappop first
AStarPass(search, initial_state) ==
    OnValue(LAMBDA popped : AStarPopped(popped, search, initial_state),
            heappop(search.queue))

\* astar.py lines 71-119: the loop
RECURSIVE AStarLoop(_, _)
AStarLoop(search, initial_state) ==
    IF search.queue = << >>
    THEN Found(Pass(FALSE, None, search), initial_state)
    ELSE LET pass == AStarPass(search, initial_state)
         IN  IF pass.solution_found
             THEN Found(pass, initial_state)
             ELSE AStarLoop(pass.search, initial_state)

\* AStarSolver.solve(initial_state), astar.py lines 47-142
AStarSolve(initial_state) ==
    SolveResult(AStarLoop(StartSearch(AStarNode(0, 0, initial_state), initial_state),
                          initial_state))

(***************************************************************************)
(* The strategies asked to solve the state the engine was made with, as    *)
(* src/main.py lines 139-144 does.                                         *)
(***************************************************************************)
BFS ==
    /\ call' = "BFSSolver.solve"
    /\ ret' = BFSSolve(internal_state)
    /\ UNCHANGED << engine, loaded, generator, solving >>

AStar ==
    /\ call' = "AStarSolver.solve"
    /\ ret' = AStarSolve(internal_state)
    /\ UNCHANGED << engine, loaded, generator, solving >>

SolveNext == BFS \/ AStar

SolveSpec == MovesInit /\ [][SolveNext]_vars

(***************************************************************************)
(* The two searches pass by pass: `solving` holds the locals of the solve  *)
(* call (the frontier, came_from, the state it was given), one action is   *)
(* one test of the loop condition with the pass that follows it, and the   *)
(* call returns when the loop is left.  One solve call is followed.        *)
(***************************************************************************)
\* solve(initial_state) up to the loop: bfs.py lines 38-50, astar.py lines
\* 57-69; `first` is what the frontier starts with
StartSolve(strategy, first) ==
    /\ solving.pc = "idle"
    /\ solving' = [ pc |-> "loop", strategy |-> strategy,
                    initial_state |-> internal_state,
                    queue |-> StartSearch(first, internal_state).queue,
                    came_from |-> StartSearch(first, internal_state).came_from ]
    /\ call' = strategy
    /\ ret' = NoResult
    /\ UNCHANGED << engine, loaded, generator >>

\* bfs.py line 46: queue = deque([(0, initial_state)])
BFSStart == StartSolve("BFSSolver.solve", [ cost |-> 0, state |-> internal_state ])

\* astar.py line 61: pq = [AStarNode(0, 0, initial_state)]
AStarStart == StartSolve("AStarSolver.solve", AStarNode(0, 0, internal_state))

\* the frontier and came_from of the call under way
Searching == [ queue |-> solving.queue, came_from |-> solving.came_from ]

\* the loop is left (and solve returns what SolveResult says) or goes on
\* with the search the pass has left
LoopOn(pass, over) ==
    /\ solving' = [ solving EXCEPT !.pc = IF over THEN "done" ELSE "loop",
                                   !.queue = pass.search.queue,
                                   !.came_from = pass.search.came_from ]
    /\ ret' = IF over
              THEN SolveResult(Found(pass, solving.initial_state))
              ELSE ret
    /\ UNCHANGED << engine, loaded, generator, call >>

\* bfs.py lines 52-92, one test of `while queue` and the pass it allows
BFSDequeue ==
    /\ solving.pc = "loop"
    /\ solving.strategy = "BFSSolver.solve"
    /\ IF solving.queue = << >>
       THEN LoopOn(Pass(FALSE, None, Searching), TRUE)
       ELSE \E pass \in { BFSPass(Searching, solving.initial_state) } :
              LoopOn(pass, pass.solution_found)

\* astar.py lines 71-119, one test of `while pq` and the pass it allows
AStarDequeue ==
    /\ solving.pc = "loop"
    /\ solving.strategy = "AStarSolver.solve"
    /\ IF solving.queue = << >>
       THEN LoopOn(Pass(FALSE, None, Searching), TRUE)
       ELSE \E pass \in { AStarPass(Searching, solving.initial_state) } :
              LoopOn(pass, pass.solution_found)

SearchNext == BFSStart \/ AStarStart \/ BFSDequeue \/ AStarDequeue

SearchSpec == MovesInit /\ [][SearchNext]_vars

(***************************************************************************)
(* The strategies that play: GreedySolver.solve, src/solver/greedy.py, and *)
(* RandomSolver.solve, src/solver/random.py, called with the state of the  *)
(* engine, as play_solve calls them (src/main.py lines 140-144).  Their    *)
(* game is a CountleGame, src/game/game.py: get_valid_moves(state) asks    *)
(* the engine for the moves of state.numbers, step(move) is execute_move   *)
(* on the engine and returns the state of the engine.  `solving` holds     *)
(* current_state and solution_path; one action is one test of the loop     *)
(* condition with the iteration that follows it.                           *)
(***************************************************************************)
\* the iterations of a solve call are followed while its path has fewer
\* than MaxPath states
MaxPath == 4

abs(x) == IF x < 0 THEN 0 - x ELSE x

\* greedy.py lines 34-47: the loop over valid_moves from position k on, with
\* best_move and best_distance so far; best_distance None is float('inf')
RECURSIVE BestMove(_, _, _, _, _)
BestMove(valid_moves, k, tgt, best_move, best_distance) ==
    IF k > Len(valid_moves)
    THEN best_move
    ELSE LET move == valid_moves[k]
             distance == abs(tgt - apply(move.operation, move.op1, move.op2)[1])
         IN  IF move.move_type # "OPERATION"
             THEN BestMove(valid_moves, k + 1, tgt, best_move, best_distance)
             ELSE IF best_distance = None \/ distance < best_distance[1]
             THEN BestMove(valid_moves, k + 1, tgt, Some(move), Some(distance))
             ELSE BestMove(valid_moves, k + 1, tgt, best_move, best_distance)

\* solve(initial_state) up to the loop, greedy.py lines 18-25, random.py
\* lines 16-23, with the state of the engine for initial_state
StartPlay(strategy) ==
    /\ solving.pc = "idle"
    /\ sampling.pc \in { "idle", "done" }
    /\ internal_state # None
    /\ solving' = [ pc |-> "loop", strategy |-> strategy,
                    initial_state |-> internal_state,
                    current_state |-> internal_state,
                    solution_path |-> << internal_state >> ]
    /\ call' = strategy
    /\ ret' = NoResult
    /\ UNCHANGED << engine, loaded, generator >>

GreedyStart == StartPlay("GreedySolver.solve")

RandomStart == StartPlay("RandomSolver.solve")

\* solve returns, or an exception leaves it
PlayOver(result) ==
    /\ solving' = [ solving EXCEPT !.pc = "done" ]
    /\ call' = solving.strategy
    /\ ret' = result
    /\ UNCHANGED << engine, loaded, generator >>

\* greedy.py lines 27-58, one test of the loop condition and the iteration it
\* allows; line 54 is game.step(best_move): execute_move on the engine, whose
\* state becomes current_state, and an exception of the engine leaves solve
GreedyIterate ==
    /\ solving.pc = "loop"
    /\ solving.strategy = "GreedySolver.solve"
    /\ LET current_state == solving.current_state
           valid_moves == get_valid_moves(current_state.numbers)
           best_move == BestMove(valid_moves, 1, current_state.target, None, None)
       IN  IF current_state.target \in Range(current_state.numbers)
           THEN PlayOver(ReturnedPath(TRUE, Some(solving.solution_path)))
           ELSE IF valid_moves = << >>
           THEN PlayOver(ReturnedPath(FALSE, Some(solving.solution_path)))
           ELSE IF best_move = None
           THEN PlayOver(ReturnedPath(FALSE, None))
           ELSE /\ Len(solving.solution_path) < MaxPath
                /\ execute_move(best_move[1])
                /\ solving' =
                      IF ret'.returned
                      THEN [ solving EXCEPT
                               !.current_state = internal_state',
                               !.solution_path = Append(@, internal_state') ]
                      ELSE [ solving EXCEPT !.pc = "done" ]

\* random.py lines 27-37, one test of the loop condition and the iteration it
\* allows; line 34 calls self.game.apply_move, and CountleGame has no such
\* method: AttributeError, whatever random.choice has drawn
RandomIterate ==
    /\ solving.pc = "loop"
    /\ solving.strategy = "RandomSolver.solve"
    /\ LET current_state == solving.current_state
           valid_moves == get_valid_moves(current_state.numbers)
       IN  IF current_state.target \in Range(current_state.numbers)
           THEN PlayOver(ReturnedPath(TRUE, Some(solving.solution_path)))
           ELSE IF valid_moves = << >>
           THEN PlayOver(ReturnedPath(FALSE, Some(solving.solution_path)))
           ELSE \E move \in Range(valid_moves) : PlayOver(Raised("AttributeError"))

\* the four strategies of STRATEGY_TO_SOLVER, each on a loaded engine
StrategiesNext ==
    \/ BFSStart \/ AStarStart \/ BFSDequeue \/ AStarDequeue
    \/ GreedyStart \/ GreedyIterate \/ RandomStart \/ RandomIterate

StrategiesSpec == MovesInit /\ [][StrategiesNext]_vars

(***************************************************************************)
(* A game played, a new level asked for with CountleGame.reset(), and the  *)
(* new level played or given to GreedySolver: the engine of a two-number   *)
(* puzzle, played through CountleGame.step with the moves it enumerates.   *)
(***************************************************************************)
\* CountleGame.step(move), src/game/game.py lines 20-31, with a move of
\* get_valid_moves
Step ==
    /\ solving.pc = "idle"
    /\ sampling.pc \in { "idle", "done" }
    /\ \E move \in Range(get_valid_moves(current_numbers)) : ExecuteMove(move)

\* reset() is called between two games, not inside a solve call
ResetGame ==
    /\ solving.pc = "idle"
    /\ (GenerateLevel \/ SampleStep \/ Reset)

ReplayInit ==
    \E numbers \in NumberLists(Min(NumNumbers)) : \E tgt \in Targets :
        create_from_numbers_and_target(numbers, tgt)

ReplayNext == Step \/ ResetGame \/ GreedyStart \/ GreedyIterate

ReplaySpec == ReplayInit /\ [][ReplayNext]_vars

(***************************************************************************)
(* Vocabulary of the properties of get_valid_moves.                        *)
(***************************************************************************)
\* the symbol each member of the catalog is played with
RuleSymbol == [ ADD |-> "+", SUBTRACT |-> "-", MULTIPLY |-> "*", DIVIDE |-> "/" ]

\* the positions of moves holding the operation move (a, b, op)
MovePositions(moves, a, b, op) ==
    { k \in 1 .. Len(moves) :
        /\ moves[k].move_type = "OPERATION"
        /\ moves[k].op1 = a
        /\ moves[k].op2 = b
        /\ moves[k].operation = op }

\* the ordered pairs of distinct positions of numbers holding a and b
PositionPairs(numbers, a, b) ==
    { p \in (1 .. Len(numbers)) \X (1 .. Len(numbers)) :
        p[1] # p[2] /\ numbers[p[1]] = a /\ numbers[p[2]] = b }

\* the operation moves of a list of moves, as a number
OperationMoveCount(moves) ==
    Cardinality({ k \in 1 .. Len(moves) : moves[k].move_type = "OPERATION" })

\* the step indexes of the rollback moves of a list of moves
RollbackIndexes(moves) ==
    { moves[k].op1 : k \in { l \in 1 .. Len(moves) : moves[l].move_type = "ROLLBACK" } }

(***************************************************************************)
(* C11.  Operation-move enumeration: get_valid_moves(numbers) emits        *)
(* exactly one operation move (numbers[i], numbers[j], op) for every       *)
(* ordered pair of distinct positions i # j and every operation of the     *)
(* catalog that is defined on (numbers[i], numbers[j]), and no other       *)
(* operation move; a commutative operation is emitted in both orders like  *)
(* any other.  Moves are compared by value, so a move is listed as many    *)
(* times as there are pairs of positions holding its operands.             *)
(***************************************************************************)
C11_OperationMoveEnumeration ==
    call = "get_valid_moves" =>
        LET numbers == internal_state.numbers
            moves == ret.moves
        IN  /\ \A k \in 1 .. Len(moves) :
                  moves[k].move_type = "OPERATION" =>
                      /\ moves[k].operation \in DOMAIN RuleSymbol
                      /\ moves[k].op1 \in Range(numbers)
                      /\ moves[k].op2 \in Range(numbers)
            /\ \A a \in Range(numbers) : \A b \in Range(numbers) :
                  \A op \in DOMAIN RuleSymbol :
                      Cardinality(MovePositions(moves, a, b, op)) =
                          IF RuleDefined(RuleSymbol[op], a, b)
                          THEN Cardinality(PositionPairs(numbers, a, b))
                          ELSE 0

\* the moves of three numbers, two of them equal, with a subtraction and a
\* division that are not defined
C11_Witness ==
    /\ call = "get_valid_moves"
    /\ Len(internal_state.numbers) = 3
    /\ internal_state.numbers[1] = internal_state.numbers[2]
    /\ internal_state.numbers[3] > internal_state.numbers[1]
    /\ internal_state.numbers[1] = 0
    /\ OperationMoveCount(ret.moves) > 0

(***************************************************************************)
(* C12.  For the numbers [4, 2] with target 9, get_valid_moves returns     *)
(* exactly 4 operation moves.                                              *)
(* It returns 6: the four of (4, 2) and, the pair being enumerated in      *)
(* both orders, 2 + 4 and 2 * 4.                                           *)
(***************************************************************************)
C12_ScenarioFourMoves ==
    (call = "get_valid_moves" /\ internal_state = Scenario) =>
        OperationMoveCount(ret.moves) = 4

\* C12 as the engine has it: exactly 6 operation moves, 4 + 2, 4 - 2, 4 * 2,
\* 4 / 2, 2 + 4 and 2 * 4, and no rollback move
C12_ScenarioSixMoves ==
    (call = "get_valid_moves" /\ internal_state = Scenario) =>
        /\ OperationMoveCount(ret.moves) = 6
        /\ Len(ret.moves) = 6
        /\ { << ret.moves[k].op1, RuleSymbol[ret.moves[k].operation], ret.moves[k].op2 >> :
                k \in 1 .. Len(ret.moves) }
           = { << 4, "+", 2 >>, << 4, "-", 2 >>, << 4, "*", 2 >>, << 4, "/", 2 >>,
               << 2, "+", 4 >>, << 2, "*", 4 >> }

C12_Witness ==
    /\ call = "get_valid_moves"
    /\ internal_state = Scenario
    /\ history = << Scenario >>

(***************************************************************************)
(* C13.  Rollback-move enumeration: called on the engine's current         *)
(* numbers, get_valid_moves emits a Rollback(k) move for every k with      *)
(* 0 <= k < len(history) - 1, and execute_rollback accepts every           *)
(* Rollback(k) it emits (0 <= k <= len(history) - 1).                      *)
(* The engine never emits Rollback(0): the indexes start at 1.             *)
(***************************************************************************)
C13_RollbackMoveEnumeration ==
    call = "get_valid_moves" =>
        /\ \A k \in 0 .. Len(history) - 2 : k \in RollbackIndexes(ret.moves)
        /\ \A k \in RollbackIndexes(ret.moves) : 0 <= k /\ k <= Len(history) - 1

(***************************************************************************)
(* Vocabulary of the properties of the level generator.                    *)
(***************************************************************************)
\* the legal operation moves on the list s: two distinct positions and a symbol
LegalAt(s) ==
    { m \in (1 .. Len(s)) \X (1 .. Len(s)) \X CatalogSymbols :
        m[1] # m[2] /\ RuleDefined(m[3], s[m[1]], s[m[2]]) }

\* the list after the legal move m on s
After(s, m) ==
    Append(WithoutPositions(s, m[1], m[2]), RuleValue(m[3], s[m[1]], s[m[2]]))

\* the results of the last move of the sequences of 1 .. k legal moves from s
RECURSIVE ResultsWithin(_, _)
ResultsWithin(s, k) ==
    IF k = 0
    THEN { }
    ELSE UNION { { RuleValue(m[3], s[m[1]], s[m[2]]) } \cup ResultsWithin(After(s, m), k - 1) :
                 m \in LegalAt(s) }

\* a level generation of the engine has ended
GenerationOver ==
    sampling.pc = "done" /\ call \in { "generate_level", "reset" }

\* no value outside the starting numbers has a stored step in min_moves .. n - 1
EmptyCandidateSet ==
    { v \in DOMAIN sampling.approx_closure :
        min_moves <= sampling.approx_closure[v] /\ sampling.approx_closure[v] < n }
    \ Range(sampling.numbers) = { }

(***************************************************************************)
(* C14.  Generated targets are reachable and non-trivial: whenever         *)
(* generate_target(numbers) returns a value t, t is not one of the         *)
(* starting numbers and some sequence of at least 1 and at most n - 1      *)
(* legal operation moves from the starting numbers produces t as a result. *)
(***************************************************************************)
C14_TargetReachable ==
    (GenerationOver /\ ret.returned) =>
        /\ ret.state.target \notin Range(ret.state.numbers)
        /\ ret.state.target \in ResultsWithin(ret.state.numbers, n - 1)

\* a target that takes two moves was returned for three numbers
C14_Witness ==
    /\ GenerationOver
    /\ ret.returned
    /\ n = 3
    /\ ret.state.target \notin ResultsWithin(ret.state.numbers, 1)
    /\ internal_state = ret.state

(***************************************************************************)
(* C15.  Difficulty floor over the sample: at the end of sampling,         *)
(* approx_closure[v] is the smallest step index at which v was produced in *)
(* any playout, for every produced value v that is not a starting number;  *)
(* hence the returned target was produced at no step index below min_moves *)
(* in any playout (min_moves <= step(target) < n).                         *)
(* The engine keeps the first step stored unless the value itself is       *)
(* smaller than that step, so a later, shorter production is lost.         *)
(***************************************************************************)
C15_DifficultyFloor ==
    /\ sampling.pc = "choose" =>
           \A v \in DOMAIN produced \ Range(sampling.numbers) :
               sampling.approx_closure[v] = produced[v]
    /\ (GenerationOver /\ ret.returned) =>
           /\ min_moves <= produced[ret.state.target]
           /\ produced[ret.state.target] < n

(***************************************************************************)
(* C16.  Target-generation exhaustion: when, after sampling, no value      *)
(* outside the starting numbers satisfies min_moves <= step(v) < n,        *)
(* generate_target reports a generation failure to the caller instead of   *)
(* returning a target: it returns nothing, and what it raises is not the   *)
(* IndexError of the selection from an empty list.                         *)
(* The engine lets that IndexError through.                                *)
(***************************************************************************)
C16_ExhaustionReported ==
    [][ (sampling.pc = "choose" /\ sampling'.pc = "done" /\ EmptyCandidateSet) =>
           (~ ret'.returned /\ ret'.message # "IndexError")
      ]_vars

(***************************************************************************)
(* C17.  generate_level produces a fresh initial state and resets the      *)
(* history to [initial]: a call to generate_level leaves the engine with   *)
(* history == [the newly generated state] and that state as the current    *)
(* state.                                                                  *)
(* generate_level does not touch the history; reset_history does, and      *)
(* CountleGame.reset calls both.                                           *)
(***************************************************************************)
C17_GenerateLevelResetsHistory ==
    (GenerationOver /\ call = "generate_level" /\ ret.returned) =>
        /\ internal_state = ret.state
        /\ history = << ret.state >>

(***************************************************************************)
(* Vocabulary of the properties of the strategies.                         *)
(***************************************************************************)
\* some sequence of at most k legal operation moves from s yields a list
\* holding t
RECURSIVE SolvableWithin(_, _, _)
SolvableWithin(s, t, k) ==
    \/ t \in Range(s)
    \/ k > 0 /\ \E m \in LegalAt(s) : SolvableWithin(After(s, m), t, k - 1)

\* the move counts (0 .. len - 1) within which t can be reached from s
SolvingCounts(s, t) == { k \in 0 .. Len(s) - 1 : SolvableWithin(s, t, k) }

\* s and t hold the same numbers, each as many times
SameNumbers(s, t) == \A v \in Range(s) \cup Range(t) : Count(s, v) = Count(t, v)

\* `next` is the result of one legal operation move on `prev` and carries
\* the description of that move
OneMoveApart(prev, next) ==
    \E m \in LegalAt(prev.numbers) :
        /\ SameNumbers(next.numbers, After(prev.numbers, m))
        /\ next.target = prev.target
        /\ next.move_description =
               Some(<< prev.numbers[m[1]], m[3], prev.numbers[m[2]],
                       RuleValue(m[3], prev.numbers[m[1]], prev.numbers[m[2]]) >>)

\* a strategy has returned
Solved == call \in { "BFSSolver.solve", "AStarSolver.solve" }

\* the returned path leads from the initial state to a state holding the
\* target, one legal operation move at a time
PathOnSuccess ==
    LET path == ret.path[1]
    IN  /\ ret.path # None
        /\ Len(path) >= 1
        /\ path[1] = internal_state
        /\ internal_state.target \in Range(path[Len(path)].numbers)
        /\ \A k \in 2 .. Len(path) : OneMoveApart(path[k - 1], path[k])

(***************************************************************************)
(* C18.  BFS optimality and completeness: for every initial state, BFS     *)
(* returns success exactly when some sequence of legal operation moves     *)
(* yields a state containing the target, and the number of moves of its    *)
(* returned path is the minimum over all such sequences; for the           *)
(* unsolvable state [4, 2] with target 9 it returns success = false.       *)
(***************************************************************************)
C18_BFSOptimalAndComplete ==
    call = "BFSSolver.solve" =>
        LET s == internal_state.numbers
            t == internal_state.target
        IN  /\ ret.success <=> SolvingCounts(s, t) # { }
            /\ ret.success =>
                   /\ ret.path # None
                   /\ \A k \in SolvingCounts(s, t) : Len(ret.path[1]) - 1 <= k
                   /\ Len(ret.path[1]) - 1 \in SolvingCounts(s, t)
            /\ internal_state = Scenario => ~ ret.success

\* BFS has returned a path of two moves
C18_Witness ==
    /\ call = "BFSSolver.solve"
    /\ ret.success
    /\ Len(ret.path[1]) = 3

(***************************************************************************)
(* C19.  A* / BFS equivalence under the zero heuristic: for every initial  *)
(* state, AStarSolver and BFSSolver return the same success flag and, on   *)
(* success, paths with the same number of states.                          *)
(***************************************************************************)
C19_AStarAgreesWithBFS ==
    call = "AStarSolver.solve" =>
        /\ heuristic(internal_state.numbers, internal_state.target) = 0
        /\ ret.success = BFSSolve(internal_state).success
        /\ ret.success => Len(ret.path[1]) = Len(BFSSolve(internal_state).path[1])

\* A* has returned a path of more than one move's states from three numbers
C19_Witness ==
    /\ call = "AStarSolver.solve"
    /\ ret.success
    /\ Len(internal_state.numbers) = 3
    /\ Len(ret.path[1]) > 2

OperationAccepted == call' = "execute_operation" /\ AcceptedOperation(ret')

\* the step is an accepted execute_rollback call
RollbackAccepted ==
    call' = "execute_rollback" /\ ret'.returned /\ ret'.message = "Rolled back"

\* the step is an accepted operation whose result equals the target
TargetHit == OperationAccepted /\ ResultOf(internal_state') = internal_state.target

(***************************************************************************)
(* C27.  Reward accounting: starting from load_state with total_reward = 0 *)
(* and move_count = 0, after any sequence of execute_operation and         *)
(* execute_rollback calls, total_reward = N * (accepted operations whose   *)
(* result equalled the target) - move_count, and move_count counts exactly *)
(* the accepted operations and the accepted rollbacks.  Stated step by     *)
(* step: both counters start at 0, every accepted call adds 1 to           *)
(* move_count, an accepted operation hitting the target adds N to          *)
(* total_reward + move_count, and every other call (rejected, terminal)    *)
(* changes neither counter.                                                *)
(***************************************************************************)
C27_RewardAccounting ==
    /\ (total_reward = 0 /\ move_count = 0)
    /\ [][ /\ move_count' - move_count =
                 IF OperationAccepted \/ RollbackAccepted THEN 1 ELSE 0
           /\ (total_reward' + move_count') - (total_reward + move_count) =
                 IF TargetHit THEN Len(loaded.numbers) ELSE 0
           /\ ~ (OperationAccepted \/ RollbackAccepted) =>
                 UNCHANGED << total_reward, move_count >>
       ]_vars

\* a game of two numbers won, rolled back to its start and won again
C27_Witness ==
    /\ Len(loaded.numbers) = 2
    /\ move_count = 3
    /\ total_reward = 2 * 2 - 3
    /\ won
    /\ Len(history) = 2

(***************************************************************************)
(* C28.  Won flag consistency: in every state reachable by                 *)
(* execute_operation / execute_rollback after load_state, won is true if   *)
(* and only if the current state is the result of an accepted operation    *)
(* whose result equals the target; in particular a rollback, also one to   *)
(* the current last index, never leaves the engine non-terminal on a state *)
(* whose producing operation hit the target.                               *)
(* execute_rollback clears won whatever the index: a rollback to the last  *)
(* index keeps the winning state and makes it playable again.              *)
(***************************************************************************)
C28_WonConsistency ==
    /\ won <=> ( /\ internal_state.move_description # None
                 /\ ResultOf(internal_state) = internal_state.target )
    /\ won => internal_state.target \in Range(internal_state.numbers)

(***************************************************************************)
(* C30.  Enumeration agrees with execution: in every non-terminal engine   *)
(* state, each operation move returned by get_valid_moves() is accepted    *)
(* when passed to execute_move (it is neither rejected nor does it fault,  *)
(* moves whose two operands have the same value included), and every       *)
(* (num1, num2, op) that execute_operation accepts is among the moves      *)
(* returned by get_valid_moves().                                          *)
(* A move of two equal operands is enumerated and faults when executed.    *)
(***************************************************************************)
C30_EnumerationAgreesWithExecution ==
    [][ (~ TerminalState /\ call' = "execute_operation") =>
          /\ \A move \in Range(get_valid_moves(current_numbers)) :
                (move.move_type = "OPERATION" /\ ExecuteMove(move)) =>
                    AcceptedOperation(ret')
          /\ AcceptedOperation(ret') =>
                \E move \in Range(get_valid_moves(current_numbers)) :
                    /\ move.move_type = "OPERATION"
                    /\ internal_state'.move_description[1][1] = move.op1
                    /\ internal_state'.move_description[1][2] = RuleSymbol[move.operation]
                    /\ internal_state'.move_description[1][3] = move.op2
      ]_vars

(***************************************************************************)
(* Vocabulary of the properties of the search loops.                       *)
(***************************************************************************)
\* the canonical key of a list of numbers: how many times it holds each value
KeyOf(numbers) == [ v \in Range(numbers) |-> Count(numbers, v) ]

\* the keys of the states of a frontier
KeysOf(queue) == { KeyOf(queue[k].state.numbers) : k \in 1 .. Len(queue) }

\* the keys came_from has an entry for
KeysRecorded(came_from) == { KeyOf(key) : key \in DOMAIN came_from }

\* a search loop is under way / has been left
InLoop == solving.pc = "loop"
LoopLeft == solving.pc = "done"

\* the step is a pass of a search loop that takes a state from the frontier
Dequeues == InLoop /\ solving.queue # << >> /\ solving' # solving

\* the state such a pass takes: the left end of the queue, the root of the heap
Dequeued == solving.queue[1].state

\* the keys of the lists that legal operation moves can make of s, s included
RECURSIVE KeysWithin(_)
KeysWithin(s) ==
    { KeyOf(s) } \cup UNION { KeysWithin(After(s, m)) : m \in LegalAt(s) }

\* what a search has left to do at most: the states of the frontier and the
\* keys not recorded yet
Remaining(s) ==
    Len(s.queue)
    + Cardinality(KeysWithin(s.initial_state.numbers) \ KeysRecorded(s.came_from))

\* the pass the loop under way makes next changes the search, unless it
\* finds the frontier empty and leaves the loop
NextPassMoves ==
    \/ solving.queue = << >>
    \/ /\ solving.strategy = "BFSSolver.solve"
       /\ BFSPass(Searching, solving.initial_state).search # Searching
    \/ /\ solving.strategy = "AStarSolver.solve"
       /\ AStarPass(Searching, solving.initial_state).search # Searching

(***************************************************************************)
(* C22.  BFS and A* always terminate: the search loop ends after finitely  *)
(* many dequeues, either at the first dequeued state containing the target *)
(* or with an empty frontier; no canonical key is enqueued more than once  *)
(* and a state with exactly one number that is not the target is never     *)
(* expanded.                                                               *)
(* Termination is stated with a variant: the next pass of a loop under way *)
(* changes the search, the recorded keys are keys that legal moves can     *)
(* make of the initial numbers, of which there are finitely many, and      *)
(* every pass lowers Remaining, which is never negative.  A key is         *)
(* enqueued once: the frontier never holds a key twice, a key that enters  *)
(* it was not recorded before, and a recorded key stays recorded.          *)
(***************************************************************************)
C22_SearchTerminates ==
    /\ [](InLoop =>
            /\ NextPassMoves
            /\ KeysRecorded(solving.came_from)
                   \subseteq KeysWithin(solving.initial_state.numbers)
            /\ Cardinality(KeysOf(solving.queue)) = Len(solving.queue)
            /\ KeysOf(solving.queue) \subseteq KeysRecorded(solving.came_from))
    /\ [][ /\ InLoop => (solving' # solving /\ (InLoop' \/ LoopLeft'))
           /\ (InLoop /\ InLoop') => Remaining(solving') < Remaining(solving)
           /\ Dequeues =>
                /\ KeyOf(Dequeued.numbers) \notin KeysOf(solving'.queue)
                /\ (KeysOf(solving'.queue) \ KeysOf(solving.queue))
                       \cap KeysRecorded(solving.came_from) = { }
                /\ Len(solving'.queue) = Cardinality(KeysOf(solving'.queue))
                /\ KeysRecorded(solving.came_from)
                       \subseteq KeysRecorded(solving'.came_from)
                /\ (solving.initial_state.target \in Range(Dequeued.numbers))
                       <=> (LoopLeft' /\ ret'.success)
                /\ ( /\ Len(Dequeued.numbers) = 1
                     /\ solving.initial_state.target \notin Range(Dequeued.numbers) )
                   => /\ KeysOf(solving'.queue) \subseteq KeysOf(solving.queue)
                      /\ solving'.came_from = solving.came_from
           /\ (InLoop /\ LoopLeft' /\ ~ ret'.success) => solving.queue = << >>
       ]_vars

\* A* has left its loop with an empty frontier after recording five keys
C22_Witness ==
    /\ LoopLeft
    /\ solving.strategy = "AStarSolver.solve"
    /\ ~ ret.success
    /\ solving.queue = << >>
    /\ Cardinality(DOMAIN solving.came_from) >= 5

\* the move count a frontier entry was enqueued with: cost in BFS, g in A*
CostOf(entry) == IF "cost" \in DOMAIN entry THEN entry.cost ELSE entry.g

\* the links from a recorded key back to the key without a parent
RECURSIVE LinksBack(_, _)
LinksBack(came_from, key) ==
    IF came_from[key].parent = None
    THEN 0
    ELSE 1 + LinksBack(came_from, came_from[key].parent[1])

(***************************************************************************)
(* C26.  Layered search graph: in BFS and A*, every state enqueued with    *)
(* cost g has exactly len(initial numbers) - g numbers, so a key is never  *)
(* discovered at two different costs, and the first came_from entry        *)
(* recorded for a key lies on a minimum-cost path to it: the parent of a   *)
(* recorded key is a recorded key one legal operation move away, and the   *)
(* links back to the initial key are as many as the numbers the key has    *)
(* lost, which is the cost of every path to it.                            *)
(***************************************************************************)
C26_LayeredSearchGraph ==
    (InLoop \/ LoopLeft) =>
        LET start == solving.initial_state.numbers
        IN  /\ \A k \in 1 .. Len(solving.queue) :
                   /\ Len(solving.queue[k].state.numbers)
                          = Len(start) - CostOf(solving.queue[k])
                   /\ \A l \in 1 .. Len(solving.queue) :
                          KeyOf(solving.queue[k].state.numbers)
                              = KeyOf(solving.queue[l].state.numbers)
                          => CostOf(solving.queue[k]) = CostOf(solving.queue[l])
            /\ \A key \in DOMAIN solving.came_from :
                   /\ (solving.came_from[key].parent = None) <=> (KeyOf(key) = KeyOf(start))
                   /\ solving.came_from[key].parent # None =>
                         /\ solving.came_from[key].parent[1] \in DOMAIN solving.came_from
                         /\ \E m \in LegalAt(solving.came_from[key].parent[1]) :
                               KeyOf(After(solving.came_from[key].parent[1], m)) = KeyOf(key)
                   /\ LinksBack(solving.came_from, key) = Len(start) - Len(key)

\* A* holds a state enqueued with cost 2 whose key is two links from the start
C26_Witness ==
    /\ InLoop
    /\ solving.strategy = "AStarSolver.solve"
    /\ \E k \in 1 .. Len(solving.queue) :
          /\ CostOf(solving.queue[k]) = 2
          /\ \E key \in DOMAIN solving.came_from :
                /\ KeyOf(key) = KeyOf(solving.queue[k].state.numbers)
                /\ LinksBack(solving.came_from, key) = 2

\* the recorded keys that hold the numbers the legal move m makes of s
RecordedAs(came_from, s, m) ==
    { key \in DOMAIN came_from : KeyOf(key) = KeyOf(After(s, m)) }

\* the step is a pass of A* that expands the state it takes from the heap
AStarExpands ==
    /\ Dequeues
    /\ solving.strategy = "AStarSolver.solve"
    /\ solving.initial_state.target \notin Range(Dequeued.numbers)
    /\ Len(Dequeued.numbers) > 1

SolveOver == solving.pc = "done"

(***************************************************************************)
(* C21.  solve never raises on a well-formed state: for each of the BFS,   *)
(* A*, Greedy and Random strategies and every initial state of             *)
(* non-negative integers with a target (repeated values included), solve   *)
(* ends by returning a (success, path) pair; exhausting the moves without  *)
(* reaching the target is reported as success = false, not as an           *)
(* exception.                                                              *)
(* RandomSolver raises AttributeError at its first move; GreedySolver      *)
(* raises TypeError when the move it commits has two equal operands.       *)
(***************************************************************************)
C21_SolveNeverRaises ==
    SolveOver =>
        /\ ret.returned
        /\ ret.message = "path"
        /\ ret.success =>
              /\ ret.path # None
              /\ LET path == ret.path[1]
                 IN  path[Len(path)].target \in Range(path[Len(path)].numbers)

\* the place of a symbol in the catalog, the order get_valid_moves tries them in
SymbolRank == ("+" :> 1) @@ ("-" :> 2) @@ ("*" :> 3) @@ ("/" :> 4)

\* the place of the legal move m in the enumeration of the moves of s
EnumRank(s, m) == ((m[1] - 1) * Len(s) + (m[2] - 1)) * 4 + SymbolRank[m[3]]

\* how far the result of the legal move m on s is from t
Distance(s, t, m) ==
    LET result == RuleValue(m[3], s[m[1]], s[m[2]])
    IN  IF result > t THEN result - t ELSE t - result

\* the first enumerated legal move on s whose result is nearest to t
GreedyChoice(s, t) ==
    CHOOSE m \in LegalAt(s) :
        \A o \in LegalAt(s) :
            \/ Distance(s, t, m) < Distance(s, t, o)
            \/ Distance(s, t, m) = Distance(s, t, o) /\ EnumRank(s, m) <= EnumRank(s, o)

\* the step is an iteration of GreedySolver.solve on a state that lacks the
\* target and has an operation move
GreedyMustMove ==
    /\ solving.pc = "loop"
    /\ solving.strategy = "GreedySolver.solve"
    /\ solving' # solving
    /\ solving.current_state.target \notin Range(solving.current_state.numbers)
    /\ LegalAt(solving.current_state.numbers) # { }

\* GreedySolver.solve has returned
GreedyReturned ==
    /\ SolveOver
    /\ solving.strategy = "GreedySolver.solve"
    /\ ret.returned
    /\ ret.message = "path"

(***************************************************************************)
(* C24.  Greedy drives the live engine: when GreedySolver.solve is started *)
(* on the engine's current state with history == [initial], at every       *)
(* iteration it commits the first enumerated operation move with minimal   *)
(* |target - result|, and on return its path equals the engine's history   *)
(* state for state, with the engine's move_count increased by              *)
(* len(path) - 1 and total_reward by the sum of the step rewards (-1 a     *)
(* step, and N more for the step that makes the target).                   *)
(* The move chosen is not committed when its operands are equal (the       *)
(* engine raises), and a solve that fails with three numbers returns no    *)
(* path.                                                                   *)
(***************************************************************************)
C24_GreedyDrivesEngine ==
    /\ [] ( GreedyReturned =>
              /\ ret.path # None
              /\ ret.path[1] = history
              /\ move_count = Len(history) - 1
              /\ total_reward =
                    (IF won THEN n ELSE 0) - (Len(history) - 1) )
    /\ [][ GreedyMustMove =>
              LET s == solving.current_state.numbers
                  m == GreedyChoice(s, solving.current_state.target)
              IN  /\ internal_state'.numbers = After(s, m)
                  /\ history' = Append(history, internal_state')
                  /\ solving'.solution_path =
                        Append(solving.solution_path, internal_state')
       ]_vars

\* GreedySolver.solve is under way or over
GreedyCalled ==
    solving.pc \in { "loop", "done" } /\ solving.strategy = "GreedySolver.solve"

(***************************************************************************)
(* C23.  Greedy termination: for every engine state (including an engine   *)
(* that was reset after a previously won game), GreedySolver.solve ends    *)
(* after at most n-1 engine steps, returning success when the target is    *)
(* among the current numbers and failure as soon as no operation moves     *)
(* remain and the target is absent; it never repeats a step that leaves    *)
(* the numbers unchanged.  Step by step: the path never holds more than n  *)
(* states, every step after which the loop goes on has taken a number off  *)
(* the list, and what the call returns tells whether the target is among   *)
(* the numbers.                                                            *)
(* On an engine reset after a won game every step is answered "Game is     *)
(* already over!" and leaves the numbers as they are: the loop never ends. *)
(***************************************************************************)
C23_GreedyTerminates ==
    /\ [] ( GreedyCalled => Len(solving.solution_path) <= n )
    /\ [] ( (GreedyCalled /\ SolveOver /\ ret.returned) =>
              /\ ret.message = "path"
              /\ ret.success <=>
                    solving.current_state.target
                        \in Range(solving.current_state.numbers) )
    /\ [][ (GreedyMustMove /\ solving'.pc = "loop") =>
              Len(solving'.current_state.numbers)
                  < Len(solving.current_state.numbers)
       ]_vars

\* CountleGame.reset() has returned the state of a new level
ResetReturned == call = "reset" /\ ret.returned

(***************************************************************************)
(* C29.  Reset gives a playable fresh game: after CountleGame.reset()      *)
(* called on an engine in any state (including one whose previous game was *)
(* won), won is false, is_terminal is false, move_count and total_reward   *)
(* are 0, and a valid execute_operation on the new numbers is accepted     *)
(* rather than answered with the terminate outcome.                        *)
(* generate_level and reset_history assign the state and the history only: *)
(* won, move_count and total_reward are those of the game before.          *)
(***************************************************************************)
C29_ResetGivesFreshGame ==
    /\ [] ( ResetReturned =>
              /\ ~ won
              /\ ~ is_terminal
              /\ move_count = 0
              /\ total_reward = 0 )
    /\ [][ (ResetReturned /\ call' = "execute_operation" /\ ret'.returned) =>
              AcceptedOperation(ret')
       ]_vars

====
